---- MODULE Spec2Model ----
(***************************************************************************)
(* shallowNNUE: sparse feature-index encoding of a chess position          *)
(* (src/src/bit_move.rs) and the incremental make/unmake of a move on the  *)
(* 768-wide encoding tensor owned by ShallowNNUE (src/src/shallow_nnue.rs).*)
(***************************************************************************)
EXTENDS Integers, Sequences, FiniteSets, TLC

VARIABLES
    board,            \* ShallowNNUE.board
    encoding_tensor,  \* ShallowNNUE.encoding_tensor
    op,               \* the operation that ended last
    result,           \* how it ended: "Ok", "Err" or "Panic"
    synced,           \* set_board_hard has run on this object
    chess_move,       \* the move under classification (SpecClassify)
    bitmove,          \* BitMove::new's result for chess_move (SpecClassify)
    plies             \* moves played so far (SpecPlay)

vars == <<board, encoding_tensor, op, result, synced, chess_move, bitmove, plies>>

(***************************************************************************)
(* Types of the chess crate that the program works on.                     *)
(***************************************************************************)
Color == {"White", "Black"}

Piece == {"Pawn", "Knight", "Bishop", "Rook", "Queen", "King"}

NumSquares == 64

NumFeatures == 768

OwnershipOffset == 6

LastSquare == 63

ALL_SQUARES == 0 .. (NumSquares - 1)

\* `piece as u16`: the discriminant of chess::Piece.
PieceOrd(piece) ==
    CASE piece = "Pawn"   -> 0
      [] piece = "Knight" -> 1
      [] piece = "Bishop" -> 2
      [] piece = "Rook"   -> 3
      [] piece = "Queen"  -> 4
      [] piece = "King"   -> 5

Other(colour) == IF colour = "White" THEN "Black" ELSE "White"

\* An empty square: Board::piece_on and Board::color_on return None.
NoCell == [piece |-> "None", color |-> "None"]

Cell(piece, colour) == [piece |-> piece, color |-> colour]

piece_on(b, sq) == b.sqs[sq].piece

color_on(b, sq) == b.sqs[sq].color

side_to_move(b) == b.stm

(***************************************************************************)
(* Orientation and indexing (bit_move.rs).                                 *)
(***************************************************************************)
\* A slip: Black's squares mirrored rank by rank instead of reflected.
orient_rank_mirror(sq, colour) ==
    IF colour = "White" THEN sq ELSE (7 - (sq \div 8)) * 8 + (sq % 8)

orient(sq, colour) ==
    IF colour = "White" THEN sq ELSE LastSquare - sq

\* A slip: the enemy classes start one slot early.
piece_index_off_by_one(piece, own_piece) ==
    IF own_piece THEN PieceOrd(piece) ELSE PieceOrd(piece) + OwnershipOffset - 1

piece_index(piece, own_piece) ==
    IF own_piece THEN PieceOrd(piece) ELSE PieceOrd(piece) + OwnershipOffset

\* A slip: a stride of 63 instead of 64 squares per class.
get_index_stride_63(piece, own_piece, sq_reoriented) ==
    (piece_index(piece, own_piece) * LastSquare + (sq_reoriented % 65536)) % 65536

\* `sq_reoriented as u16` wraps a negative i16 into 16 bits.
get_index(piece, own_piece, sq_reoriented) ==
    (piece_index(piece, own_piece) * NumSquares + (sq_reoriented % 65536)) % 65536

PieceMove(index, value) == [index |-> index, value |-> value]

(***************************************************************************)
(* Squares by name, as the chess crate numbers them (A1 = 0 .. H8 = 63).   *)
(***************************************************************************)
SqA1 == 0
SqC1 == 2
SqD1 == 3
SqE1 == 4
SqF1 == 5
SqG1 == 6
SqH1 == 7
SqE2 == 12
SqE4 == 28

\* Board::default(): the starting position, White to move.
BackRank == <<"Rook", "Knight", "Bishop", "Queen", "King", "Bishop", "Knight", "Rook">>

DefaultBoard ==
    [sqs |-> [sq \in ALL_SQUARES |->
                CASE sq \div 8 = 0 -> Cell(BackRank[(sq % 8) + 1], "White")
                  [] sq \div 8 = 1 -> Cell("Pawn", "White")
                  [] sq \div 8 = 6 -> Cell("Pawn", "Black")
                  [] sq \div 8 = 7 -> Cell(BackRank[(sq % 8) + 1], "Black")
                  [] OTHER -> NoCell],
     stm |-> "White"]


(***************************************************************************)
(* ChessMove: source, destination and optional promotion piece.            *)
(* Display for ChessMove writes the source square, the destination square  *)
(* and, when present, the promotion piece, e.g. "e2e4", "e7e8q".           *)
(***************************************************************************)
ChessMove(source, dest, promotion) ==
    [source |-> source, dest |-> dest, promotion |-> promotion]

FileChars == <<"a", "b", "c", "d", "e", "f", "g", "h">>

RankChars == <<"1", "2", "3", "4", "5", "6", "7", "8">>

SquareToString(sq) == <<FileChars[(sq % 8) + 1], RankChars[(sq \div 8) + 1]>>

PieceToString(piece) ==
    CASE piece = "Pawn"   -> <<"p">>
      [] piece = "Knight" -> <<"n">>
      [] piece = "Bishop" -> <<"b">>
      [] piece = "Rook"   -> <<"r">>
      [] piece = "Queen"  -> <<"q">>
      [] piece = "King"   -> <<"k">>

to_string(m) ==
    IF m.promotion = "None"
    THEN SquareToString(m.source) \o SquareToString(m.dest)
    ELSE SquareToString(m.source) \o SquareToString(m.dest) \o PieceToString(m.promotion)

KingsideNotation == <<"O", "-", "O">>

QueensideNotation == <<"O", "-", "O", "-", "O">>

(***************************************************************************)
(* BitMove::new: the classification of a move against the board before it. *)
(* res is "Ok" (a BitMove), "Err" (Err(())) or "Panic" (a failed expect).  *)
(***************************************************************************)
MoveType(type, indicies) == [type |-> type, indicies |-> indicies]

OkMove(mve) == [res |-> "Ok", mve |-> mve]

NoMove == MoveType("None", <<>>)

ErrMove == [res |-> "Err", mve |-> NoMove]

PanicMove == [res |-> "Panic", mve |-> NoMove]

CastleKingside ==
    MoveType("Castle",
      << PieceMove(get_index("King", TRUE, orient(SqG1, "White")), "Place"),
         PieceMove(get_index("King", TRUE, orient(SqE1, "White")), "Remove"),
         PieceMove(get_index("Rook", TRUE, orient(SqF1, "White")), "Place"),
         PieceMove(get_index("Rook", TRUE, orient(SqH1, "White")), "Remove") >>)

CastleQueenside ==
    MoveType("Castle",
      << PieceMove(get_index("King", TRUE, orient(SqC1, "White")), "Place"),
         PieceMove(get_index("King", TRUE, orient(SqE1, "White")), "Remove"),
         PieceMove(get_index("Rook", TRUE, orient(SqD1, "White")), "Place"),
         PieceMove(get_index("Rook", TRUE, orient(SqA1, "White")), "Remove") >>)

\* A slip: the piece that moved is placed, not the promotion piece.
PromoteMove_places_mover(m, turn, b) ==
    IF piece_on(b, m.source) = "None"
    THEN PanicMove
    ELSE OkMove(MoveType("Promote",
           << PieceMove(get_index(piece_on(b, m.source), TRUE, orient(m.dest, turn)), "Place"),
              PieceMove(get_index(piece_on(b, m.source), TRUE, orient(m.source, turn)), "Remove") >>))

PromoteMove(m, turn, b) ==
    IF piece_on(b, m.source) = "None"
    THEN PanicMove
    ELSE OkMove(MoveType("Promote",
           << PieceMove(get_index(m.promotion, TRUE, orient(m.dest, turn)), "Place"),
              PieceMove(get_index(piece_on(b, m.source), TRUE, orient(m.source, turn)), "Remove") >>))

\* A slip: the captured piece indexed in the mover's own classes.
CaptureMove_captured_as_own(m, turn, b) ==
    IF piece_on(b, m.source) = "None"
    THEN PanicMove
    ELSE OkMove(MoveType("Capture",
           << PieceMove(get_index(piece_on(b, m.dest), TRUE, orient(m.dest, turn)), "Remove"),
              PieceMove(get_index(piece_on(b, m.source), TRUE, orient(m.dest, turn)), "Place"),
              PieceMove(get_index(piece_on(b, m.source), TRUE, orient(m.source, turn)), "Remove") >>))

\* A slip: the capturing piece is placed on the source square.
CaptureMove_lands_on_source(m, turn, b) ==
    IF piece_on(b, m.source) = "None"
    THEN PanicMove
    ELSE OkMove(MoveType("Capture",
           << PieceMove(get_index(piece_on(b, m.dest), FALSE, orient(m.dest, turn)), "Remove"),
              PieceMove(get_index(piece_on(b, m.source), TRUE, orient(m.source, turn)), "Place"),
              PieceMove(get_index(piece_on(b, m.source), TRUE, orient(m.source, turn)), "Remove") >>))

CaptureMove(m, turn, b) ==
    IF piece_on(b, m.source) = "None"
    THEN PanicMove
    ELSE OkMove(MoveType("Capture",
           << PieceMove(get_index(piece_on(b, m.dest), FALSE, orient(m.dest, turn)), "Remove"),
              PieceMove(get_index(piece_on(b, m.source), TRUE, orient(m.dest, turn)), "Place"),
              PieceMove(get_index(piece_on(b, m.source), TRUE, orient(m.source, turn)), "Remove") >>))

\* A slip: the two squares exchanged.
NonCaptureMove_squares_swapped(m, turn, b) ==
    IF piece_on(b, m.source) = "None"
    THEN PanicMove
    ELSE OkMove(MoveType("NonCapture",
           << PieceMove(get_index(piece_on(b, m.source), TRUE, orient(m.source, turn)), "Place"),
              PieceMove(get_index(piece_on(b, m.source), TRUE, orient(m.dest, turn)), "Remove") >>))

\* A slip: a missing source piece reported as the illegal-move error.
NonCaptureMove_missing_piece_is_error(m, turn, b) ==
    IF piece_on(b, m.source) = "None"
    THEN ErrMove
    ELSE OkMove(MoveType("NonCapture",
           << PieceMove(get_index(piece_on(b, m.source), TRUE, orient(m.dest, turn)), "Place"),
              PieceMove(get_index(piece_on(b, m.source), TRUE, orient(m.source, turn)), "Remove") >>))

NonCaptureMove(m, turn, b) ==
    IF piece_on(b, m.source) = "None"
    THEN PanicMove
    ELSE OkMove(MoveType("NonCapture",
           << PieceMove(get_index(piece_on(b, m.source), TRUE, orient(m.dest, turn)), "Place"),
              PieceMove(get_index(piece_on(b, m.source), TRUE, orient(m.source, turn)), "Remove") >>))

BitMoveNew(m, turn, pre_move_board) ==
    IF to_string(m) = KingsideNotation THEN OkMove(CastleKingside)
    ELSE IF to_string(m) = QueensideNotation THEN OkMove(CastleQueenside)
    ELSE IF m.promotion # "None" THEN PromoteMove(m, turn, pre_move_board)
    ELSE IF color_on(pre_move_board, m.dest) # "None"
         THEN IF color_on(pre_move_board, m.dest) # turn
              THEN CaptureMove(m, turn, pre_move_board)
              ELSE ErrMove
         ELSE NonCaptureMove(m, turn, pre_move_board)

(***************************************************************************)
(* ShallowNNUE::make_move / unmake_move: a direct set of each index, in    *)
(* the order of the array.                                                 *)
(***************************************************************************)
Fill(tensor, index, value) == [tensor EXCEPT ![index] = value]

MakeValue(value) == IF value = "Place" THEN 1 ELSE 0

UnmakeValue(value) == IF value = "Place" THEN 0 ELSE 1

RECURSIVE MakeLoop(_, _, _)
MakeLoop(tensor, indicies, i) ==
    IF i > Len(indicies) THEN tensor
    ELSE MakeLoop(Fill(tensor, indicies[i].index, MakeValue(indicies[i].value)),
                  indicies, i + 1)

RECURSIVE UnmakeLoop(_, _, _)
UnmakeLoop(tensor, indicies, i) ==
    IF i > Len(indicies) THEN tensor
    ELSE UnmakeLoop(Fill(tensor, indicies[i].index, UnmakeValue(indicies[i].value)),
                    indicies, i + 1)

\* A slip: the loop stops before the last delta.
make_move_stops_short(tensor, bm) ==
    MakeLoop(tensor, SubSeq(bm.indicies, 1, Len(bm.indicies) - 1), 1)

make_move(tensor, bm) == MakeLoop(tensor, bm.indicies, 1)

unmake_move(tensor, bm) == UnmakeLoop(tensor, bm.indicies, 1)

(***************************************************************************)
(* ShallowNNUE::set_board_hard: clear, then encode every occupied square   *)
(* from the side to move's perspective, in the order of ALL_SQUARES.       *)
(***************************************************************************)
Zeros == [i \in 0 .. (NumFeatures - 1) |-> 0]

\* The index the loop body fills for an occupied square.
EncodeIndex(b, sq) ==
    get_index(piece_on(b, sq),
              color_on(b, sq) = side_to_move(b),
              orient(sq, side_to_move(b)))

\* The loop only ever fills with 1.0 after the clear, so its outcome is
\* the zero tensor with a 1 at the index of every occupied square.
Resync(b) ==
    LET filled == {EncodeIndex(b, sq) : sq \in {s \in ALL_SQUARES : piece_on(b, s) # "None"}}
    IN  [i \in 0 .. (NumFeatures - 1) |-> IF i \in filled THEN 1 ELSE 0]

(***************************************************************************)
(* Inputs: the boards and moves a caller hands in.  Every board has both   *)
(* kings at home; up to MaxExtra further pieces stand on ExtraSquares      *)
(* (a rook on h1 or h8, a rook or pawn on g7).                             *)
(***************************************************************************)
MaxExtra == 2

MaxPlies == 2

KingsOnly ==
    [sq \in ALL_SQUARES |->
        IF sq = SqE1 THEN Cell("King", "White")
        ELSE IF sq = 60 THEN Cell("King", "Black")
        ELSE NoCell]

ExtraSquares == {SqH1, 54, 63}

ExtraCells(sq) ==
    IF sq = 54
    THEN {Cell(p, c) : p \in {"Pawn", "Rook"}, c \in Color}
    ELSE {Cell("Rook", c) : c \in Color}

Placements ==
    {f \in [ExtraSquares -> {Cell(p, c) : p \in {"Pawn", "Rook"}, c \in Color} \cup {NoCell}] :
        /\ \A sq \in ExtraSquares : f[sq] \in ExtraCells(sq) \cup {NoCell}
        /\ Cardinality({sq \in ExtraSquares : f[sq] # NoCell}) <= MaxExtra}

PlacedBoard(f, stm) ==
    [sqs |-> [sq \in ALL_SQUARES |-> IF sq \in ExtraSquares THEN f[sq] ELSE KingsOnly[sq]],
     stm |-> stm]

Boards == {DefaultBoard} \cup {PlacedBoard(f, stm) : f \in Placements, stm \in Color}

MoveSquares == {SqE1, SqG1, SqH1, 54, 60, 62, 63}

Promotions == {"None", "Queen", "Rook"}

Moves ==
    {ChessMove(s, d, p) : s \in MoveSquares, d \in MoveSquares, p \in Promotions}
        \cup {ChessMove(SqE2, SqE4, "None")}

\* The moves handed to forward: those among the white home squares, g7 and h8.
ForwardSquares == {SqE1, SqG1, SqH1, 54, 63}

ForwardMoves ==
    {m \in Moves : m.source \in ForwardSquares /\ m.dest \in ForwardSquares}
        \cup {ChessMove(SqE2, SqE4, "None")}

NoChessMove == ChessMove(0, 0, "None")

(***************************************************************************)
(* ShallowNNUE::new: an all-zero tensor beside the starting position.      *)
(***************************************************************************)
Init ==
    /\ board = DefaultBoard
    /\ encoding_tensor = Zeros
    /\ op = "new"
    /\ result = "Ok"
    /\ synced = FALSE
    /\ chess_move = NoChessMove
    /\ bitmove = NoMove
    /\ plies = 0

\* A slip: the tensor is not cleared before the pieces are written.
set_board_hard_without_clear(b) ==
    /\ result # "Panic"
    /\ board' = b
    /\ encoding_tensor' =
          [i \in 0 .. (NumFeatures - 1) |->
              IF Resync(b)[i] = 1 THEN 1 ELSE encoding_tensor[i]]
    /\ op' = "set_board_hard"
    /\ result' = "Ok"
    /\ synced' = TRUE
    /\ UNCHANGED <<chess_move, bitmove, plies>>

set_board_hard(b) ==
    /\ result # "Panic"
    /\ board' = b
    /\ encoding_tensor' = Resync(b)
    /\ op' = "set_board_hard"
    /\ result' = "Ok"
    /\ synced' = TRUE
    /\ UNCHANGED <<chess_move, bitmove, plies>>

(***************************************************************************)
(* NNUE::forward.  The `?` returns the classifier's Err before anything is *)
(* touched; a failed expect in the classifier unwinds before make_move; a  *)
(* failed expect on the model's output unwinds after make_move and before  *)
(* unmake_move.                                                            *)
(***************************************************************************)
Classified(m) == BitMoveNew(m, side_to_move(board), board)

forward_err(m) ==
    /\ result # "Panic"
    /\ Classified(m).res = "Err"
    /\ op' = "forward"
    /\ result' = "Err"
    /\ UNCHANGED <<board, encoding_tensor, synced, chess_move, bitmove, plies>>

forward_classifier_panic(m) ==
    /\ result # "Panic"
    /\ Classified(m).res = "Panic"
    /\ op' = "forward"
    /\ result' = "Panic"
    /\ UNCHANGED <<board, encoding_tensor, synced, chess_move, bitmove, plies>>

forward_ok(m) ==
    /\ result # "Panic"
    /\ Classified(m).res = "Ok"
    /\ encoding_tensor' =
          unmake_move(make_move(encoding_tensor, Classified(m).mve), Classified(m).mve)
    /\ op' = "forward"
    /\ result' = "Ok"
    /\ UNCHANGED <<board, synced, chess_move, bitmove, plies>>

forward_model_panic(m) ==
    /\ result # "Panic"
    /\ Classified(m).res = "Ok"
    /\ encoding_tensor' = make_move(encoding_tensor, Classified(m).mve)
    /\ op' = "forward"
    /\ result' = "Panic"
    /\ UNCHANGED <<board, synced, chess_move, bitmove, plies>>

Next ==
    \/ \E b \in Boards : set_board_hard(b)
    \/ \E m \in ForwardMoves : forward_err(m)
    \/ \E m \in ForwardMoves : forward_classifier_panic(m)
    \/ \E m \in ForwardMoves : forward_ok(m)
    \/ \E m \in ForwardMoves : forward_model_panic(m)

Spec == Init /\ [][Next]_vars


(***************************************************************************)
(* The classifier and the two tensor updates taken one call at a time,     *)
(* for every input board and move: set_board_hard(board), BitMove::new,    *)
(* make_move, unmake_move.                                                 *)
(***************************************************************************)
InitClassify ==
    /\ board \in Boards
    /\ chess_move \in Moves
    /\ encoding_tensor = Resync(board)
    /\ op = "set_board_hard"
    /\ result = "Ok"
    /\ synced = TRUE
    /\ bitmove = NoMove
    /\ plies = 0

classify_move ==
    /\ op = "set_board_hard"
    /\ bitmove' = BitMoveNew(chess_move, side_to_move(board), board).mve
    /\ result' = BitMoveNew(chess_move, side_to_move(board), board).res
    /\ op' = "classify"
    /\ UNCHANGED <<board, encoding_tensor, synced, chess_move, plies>>

apply_move ==
    /\ op = "classify"
    /\ result = "Ok"
    /\ encoding_tensor' = make_move(encoding_tensor, bitmove)
    /\ op' = "make_move"
    /\ UNCHANGED <<board, result, synced, chess_move, bitmove, plies>>

revert_move ==
    /\ op = "make_move"
    /\ encoding_tensor' = unmake_move(encoding_tensor, bitmove)
    /\ op' = "unmake_move"
    /\ UNCHANGED <<board, result, synced, chess_move, bitmove, plies>>

NextClassify == classify_move \/ apply_move \/ revert_move

SpecClassify == InitClassify /\ [][NextClassify]_vars

(***************************************************************************)
(* Playing moves on the board while the tensor is only updated by          *)
(* make_move, never reverted and never resynchronised.  The board after a  *)
(* move is the chess crate's: the piece (or the promotion piece) lands on  *)
(* the destination, a castling king takes its rook along, the turn passes. *)
(***************************************************************************)
HomeSquare(colour) == IF colour = "White" THEN SqE1 ELSE 60

\* A king on its home square going two files aside, towards its own rook in
\* the corner, with nothing in between.
IsCastleMove(m, b) ==
    /\ m.promotion = "None"
    /\ m.source = HomeSquare(side_to_move(b))
    /\ b.sqs[m.source] = Cell("King", side_to_move(b))
    /\ \/ /\ m.dest = m.source + 2
          /\ b.sqs[m.source + 3] = Cell("Rook", side_to_move(b))
          /\ \A sq \in (m.source + 1) .. (m.source + 2) : b.sqs[sq] = NoCell
       \/ /\ m.dest = m.source - 2
          /\ b.sqs[m.source - 4] = Cell("Rook", side_to_move(b))
          /\ \A sq \in (m.source - 3) .. (m.source - 1) : b.sqs[sq] = NoCell

CastleRookFrom(m) == IF m.dest > m.source THEN m.source + 3 ELSE m.source - 4

CastleRookTo(m) == IF m.dest > m.source THEN m.source + 1 ELSE m.source - 1

LastRank(colour) == IF colour = "White" THEN 7 ELSE 0

\* A move of one of the mover's pieces onto a square its side does not hold;
\* a promotion piece is named exactly when a pawn reaches the last rank.
IsPlayable(m, b) ==
    /\ m.source # m.dest
    /\ color_on(b, m.source) = side_to_move(b)
    /\ color_on(b, m.dest) # side_to_move(b)
    /\ (m.promotion # "None") <=>
          (piece_on(b, m.source) = "Pawn" /\ m.dest \div 8 = LastRank(side_to_move(b)))

make_move_new(b, m) ==
    [sqs |-> [sq \in ALL_SQUARES |->
                IF sq = m.source THEN NoCell
                ELSE IF sq = m.dest
                     THEN IF m.promotion = "None" THEN b.sqs[m.source]
                          ELSE Cell(m.promotion, side_to_move(b))
                ELSE IF IsCastleMove(m, b) /\ sq = CastleRookFrom(m) THEN NoCell
                ELSE IF IsCastleMove(m, b) /\ sq = CastleRookTo(m)
                     THEN Cell("Rook", side_to_move(b))
                ELSE b.sqs[sq]],
     stm |-> Other(side_to_move(b))]

InitPlay ==
    /\ board \in Boards
    /\ encoding_tensor = Resync(board)
    /\ op = "set_board_hard"
    /\ result = "Ok"
    /\ synced = TRUE
    /\ chess_move = NoChessMove
    /\ bitmove = NoMove
    /\ plies = 0

play_move(m) ==
    /\ plies < MaxPlies
    /\ IsPlayable(m, board)
    /\ BitMoveNew(m, side_to_move(board), board).res = "Ok"
    /\ encoding_tensor' =
          make_move(encoding_tensor, BitMoveNew(m, side_to_move(board), board).mve)
    /\ board' = make_move_new(board, m)
    /\ chess_move' = m
    /\ bitmove' = BitMoveNew(m, side_to_move(board), board).mve
    /\ op' = "make_move"
    /\ plies' = plies + 1
    /\ UNCHANGED <<result, synced>>

NextPlay == \E m \in Moves : play_move(m)

SpecPlay == InitPlay /\ [][NextPlay]_vars


(***************************************************************************)
(* NNUE::forward statement by statement.  `&mut self` keeps the public     *)
(* operations from overlapping, so a new call starts only when no call is  *)
(* in progress.  plies counts the classifications make_move has applied    *)
(* and unmake_move has not yet reverted.                                   *)
(***************************************************************************)
InForward == op \in {"make_move", "model_forward"}

forward_make_move(m) ==
    /\ ~InForward
    /\ result # "Panic"
    /\ Classified(m).res = "Ok"
    /\ chess_move' = m
    /\ bitmove' = Classified(m).mve
    /\ encoding_tensor' = make_move(encoding_tensor, Classified(m).mve)
    /\ plies' = plies + 1
    /\ op' = "make_move"
    /\ UNCHANGED <<board, result, synced>>

forward_model_forward ==
    /\ op = "make_move"
    /\ op' = "model_forward"
    /\ UNCHANGED <<board, encoding_tensor, result, synced, chess_move, bitmove, plies>>

forward_model_forward_panic ==
    /\ op = "make_move"
    /\ op' = "model_forward"
    /\ result' = "Panic"
    /\ UNCHANGED <<board, encoding_tensor, synced, chess_move, bitmove, plies>>

\* A slip: forward returns the evaluation without unmaking the move.
forward_unmake_move_forgotten ==
    /\ op = "model_forward"
    /\ result # "Panic"
    /\ op' = "forward"
    /\ result' = "Ok"
    /\ chess_move' = NoChessMove
    /\ bitmove' = NoMove
    /\ UNCHANGED <<board, encoding_tensor, synced, plies>>

forward_unmake_move ==
    /\ op = "model_forward"
    /\ result # "Panic"
    /\ encoding_tensor' = unmake_move(encoding_tensor, bitmove)
    /\ plies' = plies - 1
    /\ op' = "forward"
    /\ result' = "Ok"
    /\ chess_move' = NoChessMove
    /\ bitmove' = NoMove
    /\ UNCHANGED <<board, synced>>

NextSteps ==
    \/ \E b \in Boards : ~InForward /\ set_board_hard(b)
    \/ \E m \in ForwardMoves : ~InForward /\ forward_err(m)
    \/ \E m \in ForwardMoves : ~InForward /\ forward_classifier_panic(m)
    \/ \E m \in ForwardMoves : forward_make_move(m)
    \/ forward_model_forward
    \/ forward_model_forward_panic
    \/ forward_unmake_move

SpecSteps == Init /\ [][NextSteps]_vars

(***************************************************************************)
(* Properties.                                                             *)
(***************************************************************************)
Ones(tensor) == {i \in 0 .. (NumFeatures - 1) : tensor[i] = 1}

\* The index of piece kind k (by ordinal), seen as own or enemy, on the
\* square sq as the side `colour` sees it, written out in numbers.
ExpectedIndex(k, own, sq, colour) ==
    (IF own THEN k ELSE k + 6) * 64 + (IF colour = "White" THEN sq ELSE 63 - sq)

Ordinal(piece) ==
    CASE piece = "Pawn"   -> 0
      [] piece = "Knight" -> 1
      [] piece = "Bishop" -> 2
      [] piece = "Rook"   -> 3
      [] piece = "Queen"  -> 4
      [] piece = "King"   -> 5

\* C1: after set_board_hard(B), BitMove::new succeeding on (m, B), make_move
\* and unmake_move of that classification, the tensor is again the one
\* set_board_hard(B) produced, at every index.
C1_RoundTrip ==
    op = "unmake_move" => encoding_tensor = Resync(board)

\* C2: once set_board_hard has run, a forward that returns Ok or Err leaves
\* the tensor as it was before the call at every index, and leaves the board.
C2_ForwardNoNetEffect ==
    [][(synced /\ op' = "forward" /\ result' \in {"Ok", "Err"})
          => (encoding_tensor' = encoding_tensor /\ board' = board)]_vars

\* C3: after any sequence of played moves, the tensor obtained from the
\* first position's resync by make_move alone equals the resync of the
\* position reached.
C3_IncrementalEqualsResync ==
    op = "make_move" => encoding_tensor = Resync(board)

\* C4: between public operations (after new, after set_board_hard, after a
\* forward that returned) the indices holding 1 are exactly the feature
\* indices of the occupied squares of the stored board, seen by its side to
\* move.
C4_EncodingInvariant ==
    result # "Panic" =>
        Ones(encoding_tensor) =
            {ExpectedIndex(Ordinal(piece_on(board, sq)),
                           color_on(board, sq) = side_to_move(board),
                           sq, side_to_move(board)) :
                sq \in {s \in ALL_SQUARES : piece_on(board, s) # "None"}}

\* C5: a move whose destination holds a piece of the mover's colour, with
\* or without promotion piece, is answered with Err, without deltas, and the
\* tensor stays as set_board_hard left it.
C5_IllegalMove ==
    (op = "classify" /\ color_on(board, chess_move.dest) = side_to_move(board))
        => /\ result = "Err"
           /\ bitmove = NoMove
           /\ encoding_tensor = Resync(board)

\* C6: get_index lies in [0, 768), the index range of the tensor, for every
\* piece, ownership flag and reoriented square in 0..63, and no two distinct
\* triples share an index.
FeatureTriples == Piece \X BOOLEAN \X ALL_SQUARES

C6_FeatureIndexInjective ==
    /\ DOMAIN encoding_tensor = 0 .. 767
    /\ \A t \in FeatureTriples : get_index(t[1], t[2], t[3]) \in DOMAIN encoding_tensor
    /\ Cardinality({get_index(t[1], t[2], t[3]) : t \in FeatureTriples})
          = Cardinality(FeatureTriples)

\* C6 witness: set_board_hard on the starting position has put its 32 pieces
\* on 32 different indices.
C6_Witness ==
    /\ op = "set_board_hard"
    /\ board = DefaultBoard
    /\ Cardinality(Ones(encoding_tensor)) = 32

\* C7: a castling move is classified as Castle, with four deltas on four
\* different indices: Remove at the own-perspective indices of the king's
\* and rook's origins, Place at those of their castled squares, as
\* set_board_hard encodes those squares for the mover.
CastleExpected(m, colour) ==
    { PieceMove(ExpectedIndex(5, TRUE, m.source, colour), "Remove"),
      PieceMove(ExpectedIndex(5, TRUE, m.dest, colour), "Place"),
      PieceMove(ExpectedIndex(3, TRUE, CastleRookFrom(m), colour), "Remove"),
      PieceMove(ExpectedIndex(3, TRUE, CastleRookTo(m), colour), "Place") }

C7_CastleFourDeltas ==
    (op = "classify" /\ IsCastleMove(chess_move, board))
        => /\ result = "Ok"
           /\ bitmove.type = "Castle"
           /\ Len(bitmove.indicies) = 4
           /\ Cardinality({bitmove.indicies[i].index : i \in 1 .. 4}) = 4
           /\ {bitmove.indicies[i] : i \in 1 .. 4}
                 = CastleExpected(chess_move, side_to_move(board))

\* C8 as claimed: orient is the identity for the side to move and the
\* reflection 63 - sq for the other side.
C8_OrientViewing ==
    \A sq \in ALL_SQUARES :
        /\ orient(sq, side_to_move(board)) = sq
        /\ orient(sq, Other(side_to_move(board))) = 63 - sq

\* C8 amended: orient is the identity for White and the reflection 63 - sq
\* for Black, whichever side is to move, and its result is in 0..63; so the
\* side to move sees its squares unchanged only when it is White.
C8_OrientWhiteIdentity ==
    \A sq \in ALL_SQUARES :
        /\ orient(sq, "White") = sq
        /\ orient(sq, "Black") = 63 - sq
        /\ orient(sq, side_to_move(board)) \in 0 .. 63
        /\ orient(sq, Other(side_to_move(board))) \in 0 .. 63
        /\ (orient(sq, side_to_move(board)) = sq) <=> (side_to_move(board) = "White")

\* C8 witness: Black is to move and set_board_hard has encoded Black's king
\* on e8 as an own king on the reflected square 3.
C8_Witness ==
    /\ op = "set_board_hard"
    /\ side_to_move(board) = "Black"
    /\ board.sqs[60] = Cell("King", "Black")
    /\ encoding_tensor[5 * 64 + 3] = 1

\* C9: piece_index of an own piece is its ordinal in 0..5 (bishop 2, king
\* 5), that of an enemy piece is 6 more, and the twelve classes map
\* one-to-one onto 0..11; so every piece of the stored board falls in class
\* 0..5 when it belongs to the side to move and in 6..11 otherwise.
C9_PieceIndexClasses ==
    /\ \A piece \in Piece :
          /\ piece_index(piece, TRUE) = Ordinal(piece)
          /\ piece_index(piece, FALSE) = piece_index(piece, TRUE) + 6
    /\ piece_index("Bishop", TRUE) = 2
    /\ piece_index("King", TRUE) = 5
    /\ {piece_index(t[1], t[2]) : t \in Piece \X BOOLEAN} = 0 .. 11
    /\ Cardinality(Piece \X BOOLEAN) = 12
    /\ \A sq \in {s \in ALL_SQUARES : piece_on(board, s) # "None"} :
          LET own == color_on(board, sq) = side_to_move(board)
          IN  piece_index(piece_on(board, sq), own) \in (IF own THEN 0 .. 5 ELSE 6 .. 11)

\* C9 witness: set_board_hard on the starting position has encoded the own
\* king on e1 in class 5 and the enemy king on e8 in class 11.
C9_Witness ==
    /\ op = "set_board_hard"
    /\ board = DefaultBoard
    /\ encoding_tensor[5 * 64 + 4] = 1
    /\ encoding_tensor[11 * 64 + 60] = 1

\* C10: a move that is no castling move, names no promotion piece, starts
\* on a square holding a piece P and ends on an empty square is classified
\* NonCapture with two deltas, first Place of own P on the destination, then
\* Remove of own P on the source, both as the mover sees them; e2-e4 from
\* the starting position gives Place 28, Remove 12.
IsQuietCase ==
    /\ chess_move.promotion = "None"
    /\ piece_on(board, chess_move.source) # "None"
    /\ piece_on(board, chess_move.dest) = "None"
    /\ ~IsCastleMove(chess_move, board)

C10_QuietMove ==
    (op = "classify" /\ IsQuietCase)
        => /\ result = "Ok"
           /\ bitmove.type = "NonCapture"
           /\ bitmove.indicies =
                << PieceMove(ExpectedIndex(Ordinal(piece_on(board, chess_move.source)), TRUE,
                                           chess_move.dest, side_to_move(board)), "Place"),
                   PieceMove(ExpectedIndex(Ordinal(piece_on(board, chess_move.source)), TRUE,
                                           chess_move.source, side_to_move(board)), "Remove") >>
           /\ (board = DefaultBoard /\ chess_move = ChessMove(SqE2, SqE4, "None"))
                 => bitmove.indicies = <<PieceMove(28, "Place"), PieceMove(12, "Remove")>>

\* C10 witness: e2-e4 from the starting position has been classified.
C10_Witness ==
    /\ op = "classify"
    /\ board = DefaultBoard
    /\ chess_move = ChessMove(SqE2, SqE4, "None")
    /\ IsQuietCase
    /\ bitmove.type = "NonCapture"

\* C11: a move that is no castling move, names no promotion piece, starts on
\* a square holding a piece P and ends on a square holding a piece Q of the
\* colour that is not to move is classified Capture with three deltas, in
\* this order: Remove of enemy Q on the destination, Place of own P on the
\* destination, Remove of own P on the source, all as the mover sees them.
IsCaptureCase ==
    /\ chess_move.promotion = "None"
    /\ piece_on(board, chess_move.source) # "None"
    /\ color_on(board, chess_move.dest) = Other(side_to_move(board))
    /\ ~IsCastleMove(chess_move, board)

C11_CaptureMove ==
    (op = "classify" /\ IsCaptureCase)
        => /\ result = "Ok"
           /\ bitmove.type = "Capture"
           /\ bitmove.indicies =
                << PieceMove(ExpectedIndex(Ordinal(piece_on(board, chess_move.dest)), FALSE,
                                           chess_move.dest, side_to_move(board)), "Remove"),
                   PieceMove(ExpectedIndex(Ordinal(piece_on(board, chess_move.source)), TRUE,
                                           chess_move.dest, side_to_move(board)), "Place"),
                   PieceMove(ExpectedIndex(Ordinal(piece_on(board, chess_move.source)), TRUE,
                                           chess_move.source, side_to_move(board)), "Remove") >>

\* C11 witness: with Black to move, the black rook on h8 takes the white
\* rook on h1 and the move has been classified.
C11_Witness ==
    /\ op = "classify"
    /\ IsCaptureCase
    /\ side_to_move(board) = "Black"
    /\ chess_move = ChessMove(63, SqH1, "None")
    /\ board.sqs[63] = Cell("Rook", "Black")
    /\ board.sqs[SqH1] = Cell("Rook", "White")
    /\ bitmove.type = "Capture"

\* A pawn moves and the move names a promotion piece.
IsPromotionCase ==
    /\ chess_move.promotion # "None"
    /\ piece_on(board, chess_move.source) = "Pawn"
    /\ ~IsCastleMove(chess_move, board)

PromotionRemove ==
    PieceMove(ExpectedIndex(0, TRUE, chess_move.source, side_to_move(board)), "Remove")

PromotionPlace ==
    PieceMove(ExpectedIndex(Ordinal(chess_move.promotion), TRUE,
                            chess_move.dest, side_to_move(board)), "Place")

\* No delta of the classification touches the index of an enemy piece
\* standing on the destination square.
NoDeltaOnCapturedPiece ==
    color_on(board, chess_move.dest) = Other(side_to_move(board)) =>
        \A i \in 1 .. Len(bitmove.indicies) :
            bitmove.indicies[i].index #
                ExpectedIndex(Ordinal(piece_on(board, chess_move.dest)), FALSE,
                              chess_move.dest, side_to_move(board))

\* C12 as claimed: a move that names a promotion piece R is classified
\* Promote, whatever the destination holds, with two deltas in the order
\* Remove of the own pawn on the source, then Place of own R on the
\* destination, and no delta removes an enemy piece on the destination.
C12_PromotionRemoveThenPlace ==
    (op = "classify" /\ IsPromotionCase)
        => /\ result = "Ok"
           /\ bitmove.type = "Promote"
           /\ bitmove.indicies = <<PromotionRemove, PromotionPlace>>
           /\ NoDeltaOnCapturedPiece

\* C12 amended: the same, with the two deltas in the order the code builds
\* them: Place of own R on the destination first, then Remove of the own
\* pawn on the source.
C12_PromotionPlaceThenRemove ==
    (op = "classify" /\ IsPromotionCase)
        => /\ result = "Ok"
           /\ bitmove.type = "Promote"
           /\ bitmove.indicies = <<PromotionPlace, PromotionRemove>>
           /\ NoDeltaOnCapturedPiece

\* C12 witness: White's pawn on g7 takes the black rook on h8 and becomes a
\* queen; the move has been classified.
C12_Witness ==
    /\ op = "classify"
    /\ IsPromotionCase
    /\ side_to_move(board) = "White"
    /\ board.sqs[54] = Cell("Pawn", "White")
    /\ board.sqs[63] = Cell("Rook", "Black")
    /\ chess_move = ChessMove(54, 63, "Queen")
    /\ bitmove.type = "Promote"

\* The deltas of the stored classification name pairwise different indices.
DistinctIndices ==
    \A i, j \in 1 .. Len(bitmove.indicies) :
        i # j => bitmove.indicies[i].index # bitmove.indicies[j].index

\* C13 as claimed: whenever classification returns a classification, the
\* feature indices of its deltas are pairwise distinct.
C13_DistinctIndices ==
    (op = "classify" /\ result = "Ok") => DistinctIndices

\* C13 amended: the indices are pairwise distinct whenever the move's source
\* and destination squares differ.
C13_DistinctIndicesOffSquare ==
    (op = "classify" /\ result = "Ok" /\ chess_move.source # chess_move.dest)
        => DistinctIndices

\* C13 witness: White's rook on h1 takes the black rook on h8; the three
\* deltas of the capture are stored.
C13_Witness ==
    /\ op = "classify"
    /\ result = "Ok"
    /\ side_to_move(board) = "White"
    /\ chess_move = ChessMove(SqH1, 63, "None")
    /\ board.sqs[SqH1] = Cell("Rook", "White")
    /\ board.sqs[63] = Cell("Rook", "Black")
    /\ Len(bitmove.indicies) = 3

\* The move's source square is empty on the stored board.
IsEmptySourceCase ==
    /\ piece_on(board, chess_move.source) = "None"
    /\ ~IsCastleMove(chess_move, board)

\* The move names no promotion piece and lands on a piece of the side to move.
LandsOnOwnPiece ==
    /\ chess_move.promotion = "None"
    /\ color_on(board, chess_move.dest) = side_to_move(board)

\* Nothing of the move was applied: the vector is still the encoding of the
\* stored board and neither make_move nor unmake_move has run.
NoDeltaApplied ==
    /\ op \notin {"make_move", "unmake_move"}
    /\ encoding_tensor = Resync(board)
    /\ bitmove = NoMove

\* C14 as claimed: a move whose source square is empty ends classification in
\* the fatal failure whatever the destination holds, never in the illegal-move
\* error and never in a classification, and no delta is applied.
C14_EmptySourceFatal ==
    IsEmptySourceCase
        => /\ NoDeltaApplied
           /\ op = "classify" => result = "Panic"

\* C14 amended: a move whose source square is empty ends classification in
\* the fatal failure, except that a move without promotion piece landing on
\* a piece of the side to move ends in the illegal-move error; it never ends
\* in a classification, and no delta is applied.
C14_EmptySourceFatalOrIllegal ==
    IsEmptySourceCase
        => /\ NoDeltaApplied
           /\ op = "classify"
                => result = (IF LandsOnOwnPiece THEN "Err" ELSE "Panic")

\* C14 witness: Black to move, g8 is empty and h8 holds a white rook; the
\* move g8 to h8 has been classified and ended in the fatal failure.
C14_Witness ==
    /\ op = "classify"
    /\ IsEmptySourceCase
    /\ side_to_move(board) = "Black"
    /\ chess_move = ChessMove(62, 63, "None")
    /\ board.sqs[63] = Cell("Rook", "White")
    /\ result = "Panic"

\* C15: a forward whose model evaluation fails, after the move's deltas were
\* applied, hands the failure to its caller as the error value: the call
\* returns Err and the program goes on.
C15_ModelFailureReturned ==
    [][(\E m \in ForwardMoves : forward_model_panic(m)) => result' = "Err"]_vars

OccupiedSquares == {sq \in 0 .. 63 : piece_on(board, sq) # "None"}

\* The indices the stored board's pieces have for its side to move, written
\* out in numbers.
BoardIndices ==
    {ExpectedIndex(Ordinal(piece_on(board, sq)),
                   color_on(board, sq) = side_to_move(board),
                   sq, side_to_move(board)) : sq \in OccupiedSquares}

\* C17: after set_board_hard(B), whatever tensor and board were there
\* before, the tensor holds 1 exactly at the index of each occupied square
\* of B as B's side to move sees it and 0 elsewhere, and the number of 1s is
\* the number of occupied squares; the tensor depends on B alone, so a second
\* call with B gives it again.
C17_ResyncHistoryIndependent ==
    op = "set_board_hard"
        => /\ encoding_tensor =
                [i \in 0 .. 767 |-> IF i \in BoardIndices THEN 1 ELSE 0]
           /\ Cardinality(Ones(encoding_tensor)) = Cardinality(OccupiedSquares)

\* C17 witness: set_board_hard has run on a board with Black to move holding
\* a white pawn on g7 and a black rook on h8 beside the kings.
C17_Witness ==
    /\ op = "set_board_hard"
    /\ side_to_move(board) = "Black"
    /\ board.sqs[54] = Cell("Pawn", "White")
    /\ board.sqs[63] = Cell("Rook", "Black")
    /\ Cardinality(Ones(encoding_tensor)) = 4

\* A plain quiet move or capture by the side to move: no promotion piece,
\* not a castling move, the source holds a piece of the side to move and the
\* destination is empty or holds an enemy piece.
IsPlainMoveCase ==
    /\ chess_move.promotion = "None"
    /\ ~IsCastleMove(chess_move, board)
    /\ color_on(board, chess_move.source) = side_to_move(board)
    /\ color_on(board, chess_move.dest) # side_to_move(board)

\* The squares after the move: the source emptied, the mover on the
\* destination in place of whatever stood there.
PostMoveSquares ==
    [board.sqs EXCEPT ![chess_move.source] = NoCell,
                      ![chess_move.dest] = board.sqs[chess_move.source]]

\* The indices of the pieces after the move, still seen by the mover.
PostMoveIndices ==
    {ExpectedIndex(Ordinal(PostMoveSquares[sq].piece),
                   PostMoveSquares[sq].color = side_to_move(board),
                   sq, side_to_move(board)) :
        sq \in {s \in 0 .. 63 : PostMoveSquares[s].piece # "None"}}

\* C18: for a tensor resynced on B and a plain quiet move or capture by B's
\* side to move, the tensor the model is evaluated on (after make_move) is
\* the encoding of the position after the move as the mover sees it: 1 at
\* the index of every occupied square, 0 elsewhere.
C18_ModelSeesPostMoveBoard ==
    (op = "make_move" /\ IsPlainMoveCase)
        => encoding_tensor =
              [i \in 0 .. 767 |-> IF i \in PostMoveIndices THEN 1 ELSE 0]

\* C18 witness: Black's rook on h8 has taken the white pawn on g7 and
\* make_move has run on the resynced tensor.
C18_Witness ==
    /\ op = "make_move"
    /\ IsPlainMoveCase
    /\ side_to_move(board) = "Black"
    /\ chess_move = ChessMove(63, 54, "None")
    /\ board.sqs[63] = Cell("Rook", "Black")
    /\ board.sqs[54] = Cell("Pawn", "White")
    /\ bitmove.type = "Capture"

====
